---- MODULE Spec2Model ----
(***************************************************************************)
(* Model of src/src/services/simulationEngine.js, the module-level         *)
(* simulation engine of AdversarialX.                                      *)
(*                                                                         *)
(* Numbers.  The engine computes with JavaScript doubles.  The model keeps *)
(* every quantity as an integer in a fixed unit:                           *)
(*   - confidences and confidence drops in ten-thousandths of a percentage *)
(*     point (97.2 is 972000, a drop of 25 is 250000);                     *)
(*   - rates, multipliers and pseudo-random draws in millionths (0.75 is   *)
(*     750000, the multiplier 0.82 * 0.78 is 639600);                      *)
(*   - epsilon in thousandths (0.03 is 30).                                *)
(* A product with a multiplier is truncated to the unit of the quantity.   *)
(* NaN is a distinguished value that every arithmetic helper propagates    *)
(* and every comparison answers FALSE for, as IEEE-754 does.               *)
(***************************************************************************)
EXTENDS Integers, Sequences, FiniteSets, TLC

\* state    : the module-level `state` object of the engine
\* lastCall : the exported function called last, its argument and how the
\*            call ended (returned value, or an exception that reached the
\*            caller)
\* calls    : the number of calls made so far (bounds the exploration)
\* stateB, pairPhase, configAtInit : a second engine and the bookkeeping of
\*            the two-run comparison (used by SpecPair only)
VARIABLES state, lastCall, calls, stateB, pairPhase, configAtInit, held, prevCall,
          dash, page, stream, tf

vars == <<calls, state, stateB, pairPhase, configAtInit, dash, page, stream, tf,
          lastCall, held, prevCall>>

pairVars == <<stateB, pairPhase, configAtInit>>

\* What a caller keeps from earlier calls: the value a reader returned to it
\* (held) and the call it made before the last one (prevCall).
callerVars == <<held, prevCall>>

\* The engine module and what its callers keep.
engineVars == <<state, lastCall, calls, stateB, pairPhase, configAtInit, held, prevCall>>

\* The components around the engine: the dashboard that re-implements the
\* attack step inline (dash), pages/Dashboard.jsx (page), the streaming
\* dashboard (stream) and the TensorFlow.js service (tf).
uiVars == <<dash, page, stream, tf>>

-----------------------------------------------------------------------------
\* Bounds of the exploration.

\* A run makes at most this many calls of exported functions.
MaxCalls == 5

\* The calls the two compared runs draw from, as <<function, argument>>.
PairCalls == {<<"runAttack", "none">>, <<"setEpsilon", 1>>, <<"setEpsilon", 100>>,
              <<"setAttackType", "pgd">>, <<"toggleDefense", "Adversarial Training">>}

\* Arguments the callers pass, in thousandths for setEpsilon.
EpsilonInputs == {-5000, 0, 1, 15, 30, 100, 999000}
AttackTypeInputs == {"fgsm", "pgd", "cw", "deepfool", "nonsense", "constructor"}
DefenseInputs == {"Adversarial Training", "Input Preprocessing",
                  "Defensive Distillation", "Feature Squeezing",
                  "adversarialTraining", "nonsense", "constructor"}

-----------------------------------------------------------------------------
\* IEEE-754 helpers.

NaN == -999999999

isNaN(x) == x = NaN

MathMin(a, b) == IF isNaN(a) \/ isNaN(b) THEN NaN ELSE IF a < b THEN a ELSE b

MathMax(a, b) == IF isNaN(a) \/ isNaN(b) THEN NaN ELSE IF a > b THEN a ELSE b

Minus(a, b) == IF isNaN(a) \/ isNaN(b) THEN NaN ELSE a - b

\* a * f for a quantity a (at most 1000000 units) and a multiplier f in
\* millionths (at most 2000000), in the unit of a.  The product is formed in
\* two halves so that no intermediate value leaves the 32-bit integers.
Times(a, f) ==
    IF isNaN(a) \/ isNaN(f) THEN NaN
    ELSE ((a \div 1000) * f) \div 1000
         + ((((a \div 1000) * f) % 1000) * 1000 + (a % 1000) * f) \div 1000000

\* a / b for two quantities of the same unit, in millionths.
Over(a, b) == IF isNaN(a) \/ isNaN(b) THEN NaN ELSE (a * 1000000) \div b

\* a < b as JavaScript evaluates it: FALSE as soon as one side is NaN.
LessThan(a, b) == ~isNaN(a) /\ ~isNaN(b) /\ a < b

-----------------------------------------------------------------------------
\* Static configuration.

\* IMAGENET_CLASSES.length
NumClasses == 24

\* Property names every object literal inherits from Object.prototype; a
\* lookup obj[name] with one of them yields a (truthy) function.
ObjectPrototypeKeys == {"constructor", "toString", "valueOf", "hasOwnProperty"}

ATTACK_CONFIGS ==
    [fgsm     |-> [name |-> "FGSM", baseSuccessRate |-> 750000, baseConfidenceDrop |-> 250000],
     pgd      |-> [name |-> "PGD", baseSuccessRate |-> 880000, baseConfidenceDrop |-> 350000],
     cw       |-> [name |-> "C&W", baseSuccessRate |-> 920000, baseConfidenceDrop |-> 400000],
     deepfool |-> [name |-> "DeepFool", baseSuccessRate |-> 680000, baseConfidenceDrop |-> 180000]]

DEFENSE_CONFIGS ==
    [adversarialTraining   |-> [name |-> "Adversarial Training", baseEffectiveness |-> 780000],
     inputPreprocessing    |-> [name |-> "Input Preprocessing", baseEffectiveness |-> 450000],
     defensiveDistillation |-> [name |-> "Defensive Distillation", baseEffectiveness |-> 620000],
     featureSqueezing      |-> [name |-> "Feature Squeezing", baseEffectiveness |-> 550000]]

\* Object.keys(state.defenses) lists the four literal keys in this order,
\* followed by any key added later.
DefenseKeyOrder == <<"adversarialTraining", "inputPreprocessing",
                     "defensiveDistillation", "featureSqueezing">>

DefenseIds == {DefenseKeyOrder[k] : k \in 1..Len(DefenseKeyOrder)}

\* The string a function inherited from Object.prototype is coerced to when
\* it is used as a property key.
CoercedKey(name) ==
    IF name = "constructor" THEN "function Object() { [native code] }"
    ELSE "function " \o name \o "() { [native code] }"

\* keyMap[name] in toggleDefense: the defense key, an inherited function
\* (given here by the key it coerces to), or undefined.
keyMap ==
    [n \in {"Adversarial Training", "Input Preprocessing",
            "Defensive Distillation", "Feature Squeezing"} |->
        CASE n = "Adversarial Training" -> "adversarialTraining"
          [] n = "Input Preprocessing" -> "inputPreprocessing"
          [] n = "Defensive Distillation" -> "defensiveDistillation"
          [] n = "Feature Squeezing" -> "featureSqueezing"]

keyMapLookup(name) ==
    IF name \in DOMAIN keyMap THEN keyMap[name]
    ELSE IF name \in ObjectPrototypeKeys THEN CoercedKey(name)
    ELSE "undefined"

\* Truthiness of ATTACK_CONFIGS[attackType].
hasAttackConfig(attackType) ==
    attackType \in DOMAIN ATTACK_CONFIGS \/ attackType \in ObjectPrototypeKeys

\* ATTACK_CONFIGS[state.currentAttack] || ATTACK_CONFIGS.fgsm.  An inherited
\* function has a name but no baseSuccessRate or baseConfidenceDrop, and
\* arithmetic on undefined gives NaN.
attackConfigOf(attackType) ==
    IF attackType \in DOMAIN ATTACK_CONFIGS THEN ATTACK_CONFIGS[attackType]
    ELSE IF attackType \in ObjectPrototypeKeys
         THEN [name |-> IF attackType = "constructor" THEN "Object" ELSE attackType,
               baseSuccessRate |-> NaN, baseConfidenceDrop |-> NaN]
         ELSE ATTACK_CONFIGS.fgsm

-----------------------------------------------------------------------------
\* seededRandom(seed) = frac(sin(seed * 12.9898 + 78.233) * 43758.5453), in
\* millionths, tabulated for seeds 1..120.
seededRandomTable == <<
    740084, 564395, 454749, 272400, 823448, 752842, 503755, 523438, 521777,  19895,
    592339, 611117, 401322, 849063, 340803, 422405, 237805, 987312, 709982, 865555,
    851959,  43455, 628061, 933523, 228151, 765851, 154833, 911897, 177993, 343704,
    563681, 367751, 404321, 570153, 114576, 639627, 960657, 248832, 262156, 782229,
    853993, 639834,  79962, 498034, 808680, 738414,  88519, 433203, 985217, 907692,
    481499, 351195, 491025,  76608, 910413, 293746, 341137, 616729, 594567, 513633,
    283444, 940205, 955615, 139519, 699379,  81679, 987365, 531530, 399935, 597407,
    447202, 464150,   4757, 729027, 333145, 235838, 819627, 980059, 268595,  87227,
    530675, 379526, 683231, 765092, 621658, 613838, 129746, 458444, 581805, 173864,
    272175, 934240, 618554, 662721, 841766, 356200, 838926, 458743, 268338, 588989,
     38445, 355073, 881121, 193192, 909741, 649516, 759253,  67487, 674888, 940123,
    576602, 541442, 633227, 620013, 962379, 914640,  30190, 818928, 902649, 317416 >>

seededRandom(s) == seededRandomTable[s]

-----------------------------------------------------------------------------
\* generatePrediction.

\* The identifiers bound in the scopes that enclose the comparator passed to
\* .sort() in generatePrediction: the function's parameters and constants and
\* the module's top-level bindings.  The index `i` of the preceding .filter()
\* callback and of the following .map() callback is bound in neither.
ComparatorScope ==
    {"seed", "isAdversarial", "r", "baseIdx", "confidence", "alternatives",
     "IMAGENET_CLASSES", "ATTACK_CONFIGS", "DEFENSE_CONFIGS", "state",
     "seededRandom", "generatePrediction", "getDefenseMultiplier",
     "calculateAttackEffectiveness", "calculateConfidenceDrop",
     "updateAttackedNodes", "runAttack", "getStatistics", "getDefenseMetrics",
     "toggleDefense", "setAttackType", "setEpsilon", "resetSimulation",
     "getNeuralNetworkState", "initialize", "getConfidenceHistory",
     "getAttackLog", "getCurrentState"}

\* The comparator reads `i`; reading an unbound identifier raises a
\* ReferenceError.  .sort() calls the comparator as soon as the filtered
\* array (all classes but one) has two elements.
sortComparatorThrows ==
    "i" \notin ComparatorScope /\ NumClasses - 1 >= 2

\* The prediction, or the exception that leaves generatePrediction.  Labels
\* are indices into IMAGENET_CLASSES.  The order .sort() produces under a
\* comparator that ignores its arguments is engine-defined, so the
\* alternatives are not given a value here.
generatePrediction(s, isAdversarial) ==
    IF sortComparatorThrows
    THEN [threw |-> TRUE, top |-> "none"]
    ELSE [threw |-> FALSE,
          top |-> [label |-> (seededRandom(s) * NumClasses) \div 1000000,
                   confidence |->
                      IF isAdversarial
                      THEN 200000 + (seededRandom(s + 1) * 50) \div 100
                      ELSE 850000 + (seededRandom(s + 1) * 14) \div 100]]

-----------------------------------------------------------------------------
\* Effectiveness model.

\* `DEFENSE_CONFIGS[key] || Object.values(DEFENSE_CONFIGS).find(...)` is
\* defined.  The fallback search looks for a display name that contains the
\* first word of the key; for a coerced function key that word is
\* "function", which no display name contains.
hasDefenseConfig(key) == key \in DOMAIN DEFENSE_CONFIGS

RECURSIVE SetToSeq(_)
SetToSeq(S) ==
    IF S = {} THEN <<>>
    ELSE LET x == CHOOSE y \in S : TRUE IN <<x>> \o SetToSeq(S \ {x})

\* Object.keys(state.defenses)
objectKeys(defs) == DefenseKeyOrder \o SetToSeq(DOMAIN defs \ DefenseIds)

RECURSIVE multiplyDefenses(_, _, _)
multiplyDefenses(defs, keys, multiplier) ==
    IF keys = <<>> THEN multiplier
    ELSE LET key == Head(keys)
             next == IF defs[key] /\ hasDefenseConfig(key)
                     THEN Times(multiplier,
                                1000000 - Times(DEFENSE_CONFIGS[key].baseEffectiveness, 400000))
                     ELSE multiplier
         IN multiplyDefenses(defs, Tail(keys), next)

\* A multiplier that applies every defense, enabled or not.
getDefenseMultiplierAllEnabled(st) ==
    MathMax(100000, multiplyDefenses([k \in DOMAIN st.defenses |-> TRUE],
                                     objectKeys(st.defenses), 1000000))

getDefenseMultiplier(st) ==
    MathMax(100000, multiplyDefenses(st.defenses, objectKeys(st.defenses), 1000000))

\* An effectiveness that leaves the defense multiplier out.
calculateAttackEffectivenessUndefended(st) ==
    MathMin(980000, Times(attackConfigOf(st.currentAttack).baseSuccessRate,
                          MathMin(MathMin(Over(st.perturbationLevel, 30), 3000000),
                                  2000000)))

calculateAttackEffectiveness(st) ==
    LET attackConfig == attackConfigOf(st.currentAttack)
        defenseMultiplier == getDefenseMultiplier(st)
        epsilonMultiplier == MathMin(Over(st.perturbationLevel, 30), 3000000)
        effectiveness == Times(Times(attackConfig.baseSuccessRate, defenseMultiplier),
                               MathMin(epsilonMultiplier, 2000000))
    IN MathMin(980000, effectiveness)

calculateConfidenceDrop(st) ==
    LET attackConfig == attackConfigOf(st.currentAttack)
        defenseMultiplier == getDefenseMultiplier(st)
        epsilonMultiplier == MathMin(Over(st.perturbationLevel, 30), 2000000)
        drop == Times(Times(attackConfig.baseConfidenceDrop, defenseMultiplier),
                      epsilonMultiplier)
    IN MathMin(Minus(st.currentConfidence, 100000), drop)

layers == <<4, 8, 8, 6, 3>>

\* The value updateAttackedNodes assigns to state.attackedNodes, as a set of
\* <<layer, node>> pairs.  With a NaN confidence neither `> 80` nor the loop
\* condition `i < numAttacked` holds, so the set is empty.
updateAttackedNodes(st) ==
    IF isNaN(st.currentConfidence) \/ st.currentConfidence > 800000 THEN {}
    ELSE LET numAttacked == ((1000000 - st.currentConfidence) * 25 + 5000000) \div 1000000
         IN {<<(seededRandom(st.seed + i) * 5) \div 1000000,
               (seededRandom(st.seed + i + 10)
                  * layers[(seededRandom(st.seed + i) * 5) \div 1000000 + 1]) \div 1000000>>
             : i \in 0..(numAttacked - 1)}

\* A quotient that is truncated instead of rounded.
RoundDown(num, den) == num \div den

\* Math.round(x) for x = num / den >= 0
Round(num, den) == (2 * num + den) \div (2 * den)

getStatistics(st) ==
    [successRate |-> IF st.attackCount > 0
                     THEN Round(st.successCount * 100, st.attackCount)
                     ELSE 0,
     attackCount |-> st.attackCount,
     successCount |-> st.successCount,
     perturbation |-> Round(st.perturbationLevel * 255, 1000),
     defenseEffectiveness |-> Round(1000000 - getDefenseMultiplier(st), 10000),
     currentEpsilon |-> st.perturbationLevel]

getDefenseMetrics(st) ==
    [k \in DefenseIds |-> [name |-> DEFENSE_CONFIGS[k].name,
                           effectiveness |-> DEFENSE_CONFIGS[k].baseEffectiveness \div 10000,
                           enabled |-> st.defenses[k]]]

getCurrentState(st) ==
    [confidence |-> st.currentConfidence,
     attack |-> st.currentAttack,
     epsilon |-> st.perturbationLevel,
     defenses |-> st.defenses,
     isRunning |-> st.isRunning]

-----------------------------------------------------------------------------
\* The exported operations, as functions from the state before the call to
\* [state, threw, ret]: the state the call leaves behind, whether an exception
\* reached the caller, and the value returned otherwise.

\* The module-level `state` literal.
InitialState ==
    [currentConfidence |-> 972000,
     baseConfidence |-> 972000,
     confidenceHistory |-> <<>>,
     attackCount |-> 0,
     successCount |-> 0,
     perturbationLevel |-> 30,
     currentAttack |-> "fgsm",
     isRunning |-> FALSE,
     defenses |-> [k \in DefenseIds |-> k \in {"inputPreprocessing", "featureSqueezing"}],
     currentPrediction |-> "null",
     adversarialPrediction |-> "null",
     predictions |-> <<>>,
     attackedNodes |-> {},
     attackLog |-> <<>>,
     seed |-> 42]

\* postIncrement with a step of two.
postIncrementByTwo(x) == x + 2

\* x++
postIncrement(x) == x + 1

\* successCountAfter with the increment outside the branch.
successCountAfterAlways(successCount, success) == postIncrement(successCount)

\* state.successCount after the branch on `success`.
successCountAfter(successCount, success) ==
    IF success THEN postIncrement(successCount) ELSE successCount

\* seededRandom(state.seed) < effectiveness
attackSucceeds(st) ==
    LessThan(seededRandom(st.seed), calculateAttackEffectiveness(st))

\* A confidence that loses half of the drop when the step fails.
confidenceAfterHalfDrop(confidence, confidenceDrop, success) ==
    IF success
    THEN MathMax(150000, Minus(confidence, confidenceDrop))
    ELSE MathMin(990000, Minus(confidence, Times(confidenceDrop, 500000)))

\* The confidence runAttack stores.
confidenceAfter(confidence, confidenceDrop, success) ==
    IF success
    THEN MathMax(150000, Minus(confidence, confidenceDrop))
    ELSE MathMin(990000, Minus(confidence, Times(confidenceDrop, 300000)))

\* A history that is pushed onto and never shifted.
pushHistoryNoShift(history, entry) == Append(history, entry)

\* push, then shift once the history is longer than 60.
pushHistory(history, entry) ==
    LET pushed == Append(history, entry)
    IN IF Len(pushed) > 60 THEN Tail(pushed) ELSE pushed

\* [log, ...state.attackLog].slice(0, 15)
prependLog(attackLog, log) ==
    LET all == <<log>> \o attackLog
    IN SubSeq(all, 1, IF Len(all) < 15 THEN Len(all) ELSE 15)

\* runAttack is written as a chain of operators, one per stretch of the
\* function, each taking the state its predecessor produced.

\* state.seed++; state.attackCount++
beginAttack(st) ==
    [st EXCEPT !.seed = postIncrement(@), !.attackCount = postIncrement(@)]

\* The branch on `success` and the push onto confidenceHistory.
applyOutcome(s1, confidenceDrop, success) ==
    [s1 EXCEPT !.currentConfidence = confidenceAfter(@, confidenceDrop, success),
               !.successCount = successCountAfter(@, success),
               !.confidenceHistory =
                   pushHistory(@, [time |-> s1.attackCount,
                                   value |-> MathMin(1000000,
                                       confidenceAfter(s1.currentConfidence,
                                                       confidenceDrop, success)),
                                   attack |-> s1.currentAttack,
                                   success |-> success])]

\* The assignments of the predictions, of attackedNodes and of attackLog.
recordPredictions(s3, original, adversarial, success) ==
    [s3 EXCEPT !.currentPrediction = original,
               !.adversarialPrediction = adversarial,
               !.predictions = <<adversarial.top>>,
               !.attackedNodes = updateAttackedNodes(s3),
               !.attackLog =
                   prependLog(@, [type |-> IF success THEN "danger" ELSE "info",
                                  attack |-> attackConfigOf(s3.currentAttack).name,
                                  original |-> original.top.label,
                                  adversarial |-> adversarial.top.label,
                                  confidence |-> s3.currentConfidence])]

\* The returned AttackResult.
attackResult(s6, oldConfidence, success) ==
    [success |-> success,
     confidenceDrop |-> Minus(s6.currentConfidence, oldConfidence),
     newConfidence |-> s6.currentConfidence,
     predictions |-> s6.predictions,
     originalPrediction |-> s6.currentPrediction.top,
     adversarialPrediction |-> s6.adversarialPrediction.top,
     attackType |-> s6.currentAttack,
     perturbationLevel |-> s6.perturbationLevel]

\* From the two generatePrediction calls to the return.  An exception in
\* generatePrediction leaves runAttack with the state reached so far.
finishAttack(s3, original, adversarial, oldConfidence, success) ==
    IF original.threw \/ adversarial.threw
    THEN [state |-> s3, threw |-> TRUE, ret |-> "none"]
    ELSE [state |-> recordPredictions(s3, original, adversarial, success),
          threw |-> FALSE,
          ret |-> attackResult(recordPredictions(s3, original, adversarial, success),
                               oldConfidence, success)]

continueAttack(s1) ==
    finishAttack(applyOutcome(s1, calculateConfidenceDrop(s1), attackSucceeds(s1)),
                 generatePrediction(s1.seed, FALSE),
                 generatePrediction(s1.seed + 1000, TRUE),
                 s1.currentConfidence,
                 attackSucceeds(s1))

runAttack(st) == continueAttack(beginAttack(st))

\* toggleDefense returning the value read before the flip.
toggleDefenseReturnsOld(st, name) ==
    LET key == keyMapLookup(name)
        old == IF key \in DOMAIN st.defenses THEN st.defenses[key] ELSE FALSE
    IN IF key # "undefined"
       THEN [state |-> [st EXCEPT !.defenses =
                           [k \in DOMAIN st.defenses \cup {key} |->
                               IF k = key THEN ~old ELSE st.defenses[k]]],
             threw |-> FALSE, ret |-> old]
       ELSE [state |-> st, threw |-> FALSE, ret |-> FALSE]

toggleDefense(st, name) ==
    LET key == keyMapLookup(name)
        old == IF key \in DOMAIN st.defenses THEN st.defenses[key] ELSE FALSE
    IN IF key # "undefined"
       THEN [state |-> [st EXCEPT !.defenses =
                           [k \in DOMAIN st.defenses \cup {key} |->
                               IF k = key THEN ~old ELSE st.defenses[k]]],
             threw |-> FALSE, ret |-> ~old]
       ELSE [state |-> st, threw |-> FALSE, ret |-> FALSE]

setAttackType(st, attackType) ==
    [state |-> IF hasAttackConfig(attackType)
               THEN [st EXCEPT !.currentAttack = attackType]
               ELSE st,
     threw |-> FALSE, ret |-> "undefined"]

\* clampEpsilon without the lower bound.
clampEpsilonUpperOnly(epsilon) == MathMin(100, epsilon)

\* Math.max(0.001, Math.min(0.1, epsilon))
clampEpsilon(epsilon) == MathMax(1, MathMin(100, epsilon))

setEpsilon(st, epsilon) ==
    [state |-> [st EXCEPT !.perturbationLevel = clampEpsilon(epsilon)],
     threw |-> FALSE, ret |-> "undefined"]

\* resetFields without the assignment to state.seed.
resetFieldsKeepSeed(st) ==
    [st EXCEPT !.currentConfidence = 972000,
               !.confidenceHistory = <<>>,
               !.attackCount = 0,
               !.successCount = 0,
               !.attackedNodes = {},
               !.attackLog = <<>>]

\* The seven assignments that open resetSimulation.
resetFields(st) ==
    [st EXCEPT !.currentConfidence = 972000,
               !.confidenceHistory = <<>>,
               !.attackCount = 0,
               !.successCount = 0,
               !.seed = 42,
               !.attackedNodes = {},
               !.attackLog = <<>>]

\* From the first generatePrediction call of resetSimulation to its end.
finishReset(s1, initial) ==
    IF initial.threw
    THEN [state |-> s1, threw |-> TRUE, ret |-> "none"]
    ELSE IF generatePrediction(142, TRUE).threw
         THEN [state |-> [s1 EXCEPT !.currentPrediction = initial],
               threw |-> TRUE, ret |-> "none"]
         ELSE [state |-> [s1 EXCEPT !.currentPrediction = initial,
                                    !.adversarialPrediction = generatePrediction(142, TRUE),
                                    !.predictions = <<initial.top>>],
               threw |-> FALSE, ret |-> "undefined"]

\* A reset that advances the seed instead of restoring it.
resetSimulationReseeding(st) ==
    finishReset([resetFields(st) EXCEPT !.seed = st.seed + 1],
                generatePrediction(42, FALSE))

resetSimulation(st) == finishReset(resetFields(st), generatePrediction(42, FALSE))

\* The snapshot initialize returns once resetSimulation has returned.
snapshot(reset) ==
    IF reset.threw THEN reset
    ELSE [state |-> reset.state, threw |-> FALSE,
          ret |-> [confidence |-> reset.state.currentConfidence,
                   predictions |-> reset.state.predictions,
                   originalPrediction |-> reset.state.currentPrediction.top,
                   statistics |-> getStatistics(reset.state),
                   defenses |-> getDefenseMetrics(reset.state),
                   neuralNetwork |-> reset.state.attackedNodes]]

\* An initialize that restores the whole initial state, configuration included.
initializeDefaults(st) == snapshot(resetSimulation(InitialState))

initialize(st) == snapshot(resetSimulation(st))

-----------------------------------------------------------------------------
\* One engine driven by a caller.

NoCall == [op |-> "none", arg |-> "none", threw |-> FALSE, ret |-> "none"]

\* The caller holds no value returned by a reader.
NoSnapshot == [reader |-> "none", aliased |-> FALSE, returned |-> "none", now |-> "none"]

\* The components around the engine are not mounted.
UiIdle ==
    /\ dash = "none"
    /\ page = "none"
    /\ stream = "none"
    /\ tf = "none"

\* The engine module as loaded, with no call made yet.
EngineIdle ==
    /\ state = InitialState
    /\ lastCall = NoCall
    /\ calls = 0
    /\ stateB = InitialState
    /\ pairPhase = "off"
    /\ configAtInit = <<>>
    /\ held = NoSnapshot
    /\ prevCall = NoCall

Call(op, arg, result) ==
    /\ calls < MaxCalls
    /\ calls' = calls + 1
    /\ state' = result.state
    /\ lastCall' = [op |-> op, arg |-> arg, threw |-> result.threw, ret |-> result.ret]
    /\ UNCHANGED pairVars
    /\ UNCHANGED callerVars
    /\ UNCHANGED uiVars

Init ==
    /\ state = InitialState
    /\ lastCall = NoCall
    /\ calls = 0
    /\ stateB = InitialState
    /\ pairPhase = "off"
    /\ configAtInit = <<>>
    /\ held = NoSnapshot
    /\ prevCall = NoCall
    /\ UiIdle

Initialize == Call("initialize", "none", initialize(state))

ResetSimulation == Call("resetSimulation", "none", resetSimulation(state))

RunAttack == Call("runAttack", "none", runAttack(state))

SetAttackType == \E attackType \in AttackTypeInputs :
    Call("setAttackType", attackType, setAttackType(state, attackType))

SetEpsilon == \E epsilon \in EpsilonInputs :
    Call("setEpsilon", epsilon, setEpsilon(state, epsilon))

ToggleDefense == \E name \in DefenseInputs :
    Call("toggleDefense", name, toggleDefense(state, name))

GetStatistics ==
    Call("getStatistics", "none",
         [state |-> state, threw |-> FALSE, ret |-> getStatistics(state)])

GetCurrentState ==
    Call("getCurrentState", "none",
         [state |-> state, threw |-> FALSE, ret |-> getCurrentState(state)])

Next ==
    \/ Initialize
    \/ ResetSimulation
    \/ RunAttack
    \/ SetAttackType
    \/ SetEpsilon
    \/ ToggleDefense
    \/ GetStatistics
    \/ GetCurrentState

Spec == Init /\ [][Next]_vars

-----------------------------------------------------------------------------
\* Two runs of the engine side by side.  Each run first receives calls of its
\* own (pairPhase = "before"), then both call initialize() and from there on
\* receive the same calls with the same arguments (pairPhase = "after").

Apply(call, st) ==
    CASE call[1] = "runAttack" -> runAttack(st)
      [] call[1] = "setEpsilon" -> setEpsilon(st, call[2])
      [] call[1] = "setAttackType" -> setAttackType(st, call[2])
      [] call[1] = "toggleDefense" -> toggleDefense(st, call[2])

ConfigOf(st) ==
    [epsilon |-> st.perturbationLevel, attack |-> st.currentAttack,
     defenses |-> st.defenses]

PairStep(op, arg, resultA, resultB, phase, atInit) ==
    /\ calls < MaxCalls
    /\ calls' = calls + 1
    /\ lastCall' = [op |-> op, arg |-> arg, threw |-> resultA.threw, ret |-> resultA.ret]
    /\ state' = resultA.state
    /\ stateB' = resultB.state
    /\ pairPhase' = phase
    /\ configAtInit' = atInit
    /\ UNCHANGED callerVars
    /\ UNCHANGED uiVars

Unchanged(st) == [state |-> st, threw |-> FALSE, ret |-> "none"]

PairInit ==
    /\ state = InitialState
    /\ stateB = InitialState
    /\ lastCall = NoCall
    /\ calls = 0
    /\ pairPhase = "before"
    /\ configAtInit = <<>>
    /\ held = NoSnapshot
    /\ prevCall = NoCall
    /\ UiIdle

PairBeforeA == \E call \in PairCalls :
    /\ pairPhase = "before"
    /\ PairStep(call[1], call[2], Apply(call, state), Unchanged(stateB),
                pairPhase, configAtInit)

PairBeforeB == \E call \in PairCalls :
    /\ pairPhase = "before"
    /\ PairStep(call[1], call[2], Unchanged(state), Apply(call, stateB),
                pairPhase, configAtInit)

PairInitialize ==
    /\ pairPhase = "before"
    /\ PairStep("initialize", "none", initialize(state), initialize(stateB), "after",
                <<[config |-> ConfigOf(state), attackCount |-> state.attackCount],
                  [config |-> ConfigOf(stateB), attackCount |-> stateB.attackCount]>>)

PairSame == \E call \in PairCalls :
    /\ pairPhase = "after"
    /\ PairStep(call[1], call[2], Apply(call, state), Apply(call, stateB),
                pairPhase, configAtInit)

PairNext ==
    \/ PairBeforeA
    \/ PairBeforeB
    \/ PairInitialize
    \/ PairSame

SpecPair == PairInit /\ [][PairNext]_vars

\* What the comparison of two runs looks at: the outcome of every step so far
\* (success flag and new confidence, as the history records them), the
\* confidence, the counters and the attacked nodes.
Observed(st) ==
    [confidenceHistory |-> st.confidenceHistory,
     currentConfidence |-> st.currentConfidence,
     attackCount |-> st.attackCount,
     successCount |-> st.successCount,
     attackedNodes |-> st.attackedNodes]

\* C4 as stated: two runs that begin with initialize() and then receive the
\* same calls show identical step outcomes, confidence history and attacked
\* nodes, whatever was applied to either engine before that initialize().
C4_DeterminismAfterInitialize ==
    pairPhase = "after" => Observed(state) = Observed(stateB)

\* C4 as amended: the same, provided epsilon, the selected attack and the
\* defenses of the two engines are equal when initialize() is called.
C4_DeterminismGivenEqualConfig ==
    pairPhase = "after" /\ configAtInit[1].config = configAtInit[2].config
        => Observed(state) = Observed(stateB)

\* C4 witness: the two engines had run a different number of attacks before
\* initialize(), had equal configurations at initialize(), and have since
\* both run a successful and a failed attack.
C4_Witness ==
    /\ pairPhase = "after"
    /\ configAtInit[1].config = configAtInit[2].config
    /\ configAtInit[1].attackCount # configAtInit[2].attackCount
    /\ state.attackCount = 2
    /\ state.successCount = 1

-----------------------------------------------------------------------------
\* Long runs of one engine.  A run starts from a configuration the setters
\* can produce and then only steps and re-initialises, far enough for the
\* confidence history to fill its window of 60 entries and evict.

\* A long run makes at most this many steps between two initialisations.
MaxLongSteps == 62

LongEpsilonInputs == {1, 30, 100}

\* The engine after setAttackType(attack) and setEpsilon(epsilon).
configured(attack, epsilon) ==
    setEpsilon(setAttackType(InitialState, attack).state, epsilon).state

LongInit ==
    /\ \E attack \in DOMAIN ATTACK_CONFIGS : \E epsilon \in LongEpsilonInputs :
           state = configured(attack, epsilon)
    /\ lastCall = NoCall
    /\ calls = 0
    /\ stateB = InitialState
    /\ pairPhase = "off"
    /\ configAtInit = <<>>
    /\ held = NoSnapshot
    /\ prevCall = NoCall
    /\ UiIdle

LongCall(op, result) ==
    /\ state' = result.state
    /\ lastCall' = [op |-> op, arg |-> "none", threw |-> result.threw, ret |-> result.ret]
    /\ UNCHANGED calls
    /\ UNCHANGED pairVars
    /\ UNCHANGED callerVars
    /\ UNCHANGED uiVars

LongRunAttack ==
    /\ state.attackCount < MaxLongSteps
    /\ LongCall("runAttack", runAttack(state))

LongInitialize == LongCall("initialize", initialize(state))

LongNext ==
    \/ LongRunAttack
    \/ LongInitialize

SpecLong == LongInit /\ [][LongNext]_vars

-----------------------------------------------------------------------------
\* One engine whose caller remembers the call before the last one, so that
\* two calls in succession can be told from one.

TrackedCalls == {<<"runAttack", "none">>, <<"setEpsilon", 100>>,
                 <<"setAttackType", "cw">>, <<"setAttackType", "constructor">>,
                 <<"toggleDefense", "Adversarial Training">>}

TrackedCall(op, arg, result) ==
    /\ calls < MaxCalls
    /\ calls' = calls + 1
    /\ state' = result.state
    /\ lastCall' = [op |-> op, arg |-> arg, threw |-> result.threw, ret |-> result.ret]
    /\ prevCall' = lastCall
    /\ UNCHANGED held
    /\ UNCHANGED pairVars
    /\ UNCHANGED uiVars

TrackedInitialize == TrackedCall("initialize", "none", initialize(state))

TrackedOther == \E call \in TrackedCalls :
    TrackedCall(call[1], call[2], Apply(call, state))

TrackedNext ==
    \/ TrackedInitialize
    \/ TrackedOther

SpecTracked == Init /\ [][TrackedNext]_vars

-----------------------------------------------------------------------------
\* One engine and a caller that keeps what a reader returned to it.  The
\* readers return the engine's own array or object where the code does:
\* getConfidenceHistory() returns state.confidenceHistory itself,
\* getAttackLog() returns state.attackLog itself, and getCurrentState()
\* returns a new object whose `defenses` is state.defenses itself.  `held`
\* records the reader, the value as returned, the value the caller sees
\* through it now, and whether it still is (or contains) an object of the
\* engine.

getConfidenceHistory(st) == st.confidenceHistory

getAttackLog(st) == st.attackLog

ReaderEpsilonInputs == {1, 100}

ReaderAttackInputs == {"pgd"}

ReaderDefenseInputs == {"Adversarial Training", "Input Preprocessing"}

\* What the caller holds after a call `op` that left the engine in `st`:
\*  - runAttack pushes onto and shifts state.confidenceHistory in place, so a
\*    held history follows it; resetSimulation assigns a new empty array and
\*    so lets go of the held one;
\*  - state.attackLog is only ever replaced by a new array (by runAttack when
\*    it gets that far, and by resetSimulation), never changed in place;
\*  - toggleDefense assigns into state.defenses in place and nothing ever
\*    replaces that object, so the `defenses` of a held getCurrentState()
\*    result follows it.
seenThrough(h, op, st, threw) ==
    CASE h.reader = "getConfidenceHistory" /\ h.aliased ->
             IF op = "runAttack" THEN [h EXCEPT !.now = st.confidenceHistory]
             ELSE IF op = "initialize" THEN [h EXCEPT !.aliased = FALSE]
             ELSE h
      [] h.reader = "getAttackLog" /\ h.aliased ->
             IF op = "initialize" \/ (op = "runAttack" /\ ~threw)
             THEN [h EXCEPT !.aliased = FALSE]
             ELSE h
      [] h.reader = "getCurrentState" /\ h.aliased ->
             [h EXCEPT !.now.defenses = st.defenses]
      [] OTHER -> h

\* A call of a reader: the engine is left alone and the caller holds the
\* returned value.
Read(reader, value) ==
    /\ calls < MaxCalls
    /\ calls' = calls + 1
    /\ lastCall' = [op |-> reader, arg |-> "none", threw |-> FALSE, ret |-> value]
    /\ held' = [reader |-> reader, aliased |-> TRUE, returned |-> value, now |-> value]
    /\ UNCHANGED state
    /\ UNCHANGED prevCall
    /\ UNCHANGED pairVars
    /\ UNCHANGED uiVars

\* A call of a function that writes the engine's state.
Write(op, arg, result) ==
    /\ calls < MaxCalls
    /\ calls' = calls + 1
    /\ state' = result.state
    /\ lastCall' = [op |-> op, arg |-> arg, threw |-> result.threw, ret |-> result.ret]
    /\ held' = seenThrough(held, op, result.state, result.threw)
    /\ UNCHANGED prevCall
    /\ UNCHANGED pairVars
    /\ UNCHANGED uiVars

ReadConfidenceHistory == Read("getConfidenceHistory", getConfidenceHistory(state))

ReadAttackLog == Read("getAttackLog", getAttackLog(state))

ReadCurrentState == Read("getCurrentState", getCurrentState(state))

WriteRunAttack == Write("runAttack", "none", runAttack(state))

WriteInitialize == Write("initialize", "none", initialize(state))

WriteToggleDefense == \E name \in ReaderDefenseInputs :
    Write("toggleDefense", name, toggleDefense(state, name))

WriteSetEpsilon == \E epsilon \in ReaderEpsilonInputs :
    Write("setEpsilon", epsilon, setEpsilon(state, epsilon))

WriteSetAttackType == \E attackType \in ReaderAttackInputs :
    Write("setAttackType", attackType, setAttackType(state, attackType))

ReadersNext ==
    \/ ReadConfidenceHistory
    \/ ReadAttackLog
    \/ ReadCurrentState
    \/ WriteRunAttack
    \/ WriteInitialize
    \/ WriteToggleDefense
    \/ WriteSetEpsilon
    \/ WriteSetAttackType

SpecReaders == Init /\ [][ReadersNext]_vars

-----------------------------------------------------------------------------
\* The functions of the effectiveness model applied to every configuration:
\* each attack, each epsilon of the clamped range [0.001, 0.1] in steps of
\* 0.001, and each of the 16 combinations of defenses.

PureEpsilonInputs == 1..100

PureInit ==
    /\ \E attack \in DOMAIN ATTACK_CONFIGS : \E epsilon \in PureEpsilonInputs :
       \E defs \in [DefenseIds -> BOOLEAN] :
           state = [InitialState EXCEPT !.currentAttack = attack,
                                        !.perturbationLevel = epsilon,
                                        !.defenses = defs]
    /\ lastCall = NoCall
    /\ calls = 0
    /\ stateB = InitialState
    /\ pairPhase = "off"
    /\ configAtInit = <<>>
    /\ held = NoSnapshot
    /\ prevCall = NoCall
    /\ UiIdle

Evaluate(function, value) ==
    /\ lastCall' = [op |-> function, arg |-> "none", threw |-> FALSE, ret |-> value]
    /\ UNCHANGED <<state, calls>>
    /\ UNCHANGED pairVars
    /\ UNCHANGED callerVars
    /\ UNCHANGED uiVars

EvaluateDefenseMultiplier ==
    Evaluate("getDefenseMultiplier", getDefenseMultiplier(state))

EvaluateAttackEffectiveness ==
    Evaluate("calculateAttackEffectiveness", calculateAttackEffectiveness(state))

EvaluateConfidenceDrop ==
    Evaluate("calculateConfidenceDrop", calculateConfidenceDrop(state))

PureNext ==
    \/ EvaluateDefenseMultiplier
    \/ EvaluateAttackEffectiveness
    \/ EvaluateConfidenceDrop

SpecPure == PureInit /\ [][PureNext]_vars

-----------------------------------------------------------------------------
\* The dashboard that re-implements the attack step inline
\* (src/unnamed/part_002, the component that starts at line 1092).  `dash`
\* holds the component's React state and its attackCounterRef; `init` is the
\* position of initSimulation: not yet called ("mounted"), suspended at its
\* `await import(...)` ("importing"), returned ("resolved") or left by an
\* exception ("rejected").  State updates that a callback has queued before
\* it throws are still applied by React, so an action that ends in an
\* exception keeps the updates made before it.  The neural-network layout is
\* presentational and not part of `dash`.

\* The dashboard makes at most this many inline steps.
MaxDashSteps == 6

DashAttackInputs == {"fgsm", "cw"}

DashEpsilonInputs == {30, 100}

DashDefenseInputs == {"adversarialTraining"}

Dashboard_ATTACK_CONFIGS ==
    [fgsm     |-> [baseSuccessRate |-> 750000, baseConfidenceDrop |-> 250000],
     pgd      |-> [baseSuccessRate |-> 880000, baseConfidenceDrop |-> 350000],
     cw       |-> [baseSuccessRate |-> 920000, baseConfidenceDrop |-> 400000],
     deepfool |-> [baseSuccessRate |-> 680000, baseConfidenceDrop |-> 180000]]

\* The identifiers bound in the scopes that enclose the comparator passed to
\* .sort() in the dashboard's own generatePrediction: its parameters and
\* constants, the component's bindings and the module's.  As in the engine,
\* the index `i` of the neighbouring callbacks is not among them.
Dashboard_ComparatorScope ==
    {"seed", "isAdversarial", "r", "baseIdx", "confidence", "alternatives",
     "React", "useState", "useEffect", "useCallback", "useMemo", "Component",
     "useRef", "motion", "ResponsiveContainer", "AreaChart", "Area", "XAxis",
     "YAxis", "ReferenceLine", "ATTACK_METHODS", "DEFENSE_METHODS",
     "ErrorBoundary", "Dashboard", "onBack", "isLoading", "setIsLoading",
     "isRunning", "setIsRunning", "currentAttack", "setCurrentAttack",
     "epsilon", "setEpsilon", "currentConfidence", "setCurrentConfidence",
     "confidenceHistory", "setConfidenceHistory", "attackCount",
     "setAttackCount", "successCount", "setSuccessCount",
     "originalPrediction", "setOriginalPrediction", "predictions",
     "setPredictions", "defenses", "setDefenses", "attackLog", "setAttackLog",
     "neuralNetwork", "setNeuralNetwork", "simulationEngine",
     "setSimulationEngine", "intervalRef", "attackCounterRef",
     "IMAGENET_CLASSES", "seededRandom", "generatePrediction",
     "getDefenseMultiplier", "ATTACK_CONFIGS", "initSimulation", "addToLog",
     "runAttack", "toggleDefense", "statistics", "chartData"}

\* The dashboard's generatePrediction: the same text as the engine's, over
\* the same 24 classes.
Dashboard_generatePrediction(s, isAdversarial) ==
    IF "i" \notin Dashboard_ComparatorScope /\ NumClasses - 1 >= 2
    THEN [threw |-> TRUE, top |-> "none"]
    ELSE [threw |-> FALSE,
          top |-> [label |-> (seededRandom(s) * NumClasses) \div 1000000,
                   confidence |->
                      IF isAdversarial
                      THEN 200000 + (seededRandom(s + 1) * 50) \div 100
                      ELSE 850000 + (seededRandom(s + 1) * 14) \div 100]]

\* `if (defenses.x) multiplier *= (1 - e * 0.4)`
Dashboard_defenseFactor(enabled, e) ==
    IF enabled THEN 1000000 - Times(e, 400000) ELSE 1000000

Dashboard_getDefenseMultiplier(defenses) ==
    MathMax(100000,
        Times(Times(Times(Times(1000000,
            Dashboard_defenseFactor(defenses.adversarialTraining, 780000)),
            Dashboard_defenseFactor(defenses.inputPreprocessing, 450000)),
            Dashboard_defenseFactor(defenses.defensiveDistillation, 620000)),
            Dashboard_defenseFactor(defenses.featureSqueezing, 550000)))

\* Math.min(epsilon / 0.03, 3)
Dashboard_epsilonMultiplier(d) == MathMin(Over(d.epsilon, 30), 3000000)

\* baseSuccessRate * defenseMultiplier * Math.min(epsilonMultiplier, 2)
Dashboard_effectiveness(d) ==
    Times(Times(Dashboard_ATTACK_CONFIGS[d.currentAttack].baseSuccessRate,
                Dashboard_getDefenseMultiplier(d.defenses)),
          MathMin(Dashboard_epsilonMultiplier(d), 2000000))

\* baseConfidenceDrop * defenseMultiplier * epsilonMultiplier, not clamped.
\* The multiplier of up to 3 is the operand Times splits.
Dashboard_confidenceDrop(d) ==
    Times(Dashboard_epsilonMultiplier(d),
          Times(Dashboard_ATTACK_CONFIGS[d.currentAttack].baseConfidenceDrop,
                Dashboard_getDefenseMultiplier(d.defenses)))

\* The value runAttack passes to setCurrentConfidence.
Dashboard_newConfidence(confidence, confidenceDrop, success) ==
    IF success
    THEN MathMax(150000, Minus(confidence, confidenceDrop))
    ELSE MathMin(990000, Minus(confidence, Times(confidenceDrop, 300000)))

\* [...prev, point].slice(-60)
Dashboard_pushHistory(history, point) ==
    IF Len(history) >= 60 THEN Tail(Append(history, point)) ELSE Append(history, point)

\* [entry, ...prev].slice(0, 12)
Dashboard_addToLog(attackLog, type) ==
    SubSeq(<<type>> \o attackLog, 1, IF Len(attackLog) < 12 THEN Len(attackLog) + 1 ELSE 12)

\* runAttack up to setAttackCount: the counter, the new confidence and the
\* success count.  d1 is the state with the counter incremented.
Dashboard_stepOutcome(d1, success) ==
    [d1 EXCEPT !.currentConfidence =
                   Dashboard_newConfidence(@, Dashboard_confidenceDrop(d1), success),
               !.successCount = IF success THEN @ + 1 ELSE @,
               !.attackCount = d1.attackCounter]

\* runAttack from the two generatePrediction calls on.  d1 still has the
\* confidence of before the step, d2 the new one.
Dashboard_stepRecord(d1, d2, success, original, adversarial) ==
    IF original.threw \/ adversarial.threw
    THEN d2
    ELSE [d2 EXCEPT !.originalPrediction = original.top,
                    !.predictions = <<adversarial.top>>,
                    !.attackLog = Dashboard_addToLog(@, IF success THEN "danger" ELSE "info"),
                    !.confidenceHistory =
                        Dashboard_pushHistory(@,
                            [time |-> d1.attackCounter,
                             value |-> MathMin(1000000, MathMax(50000,
                                 Dashboard_newConfidence(d1.currentConfidence,
                                     Dashboard_confidenceDrop(d1), success))),
                             attack |-> d1.currentAttack,
                             success |-> success])]

Dashboard_step(d1, success) ==
    Dashboard_stepRecord(d1, Dashboard_stepOutcome(d1, success), success,
                         Dashboard_generatePrediction(d1.attackCounter, FALSE),
                         Dashboard_generatePrediction(d1.attackCounter + 1000, TRUE))

Dashboard_draw(d1) ==
    LessThan(seededRandom(d1.attackCounter), Dashboard_effectiveness(d1))

Dashboard_runAttack(d) ==
    Dashboard_step([d EXCEPT !.attackCounter = @ + 1],
                   Dashboard_draw([d EXCEPT !.attackCounter = @ + 1]))

\* The component as mounted.
DashboardMounted ==
    [init |-> "mounted",
     isLoading |-> TRUE,
     isRunning |-> FALSE,
     currentAttack |-> "fgsm",
     epsilon |-> 30,
     currentConfidence |-> 972000,
     confidenceHistory |-> <<>>,
     attackCount |-> 0,
     successCount |-> 0,
     originalPrediction |-> [label |-> 0, confidence |-> 972000],
     predictions |-> <<>>,
     defenses |-> [k \in DefenseIds |-> k \in {"inputPreprocessing", "featureSqueezing"}],
     attackLog |-> <<>>,
     simulationEngine |-> FALSE,
     attackCounter |-> 0]

\* The try branch of initSimulation after engine.initialize() has returned.
Dashboard_initFromEngine(d, init) ==
    [d EXCEPT !.init = "resolved",
              !.simulationEngine = TRUE,
              !.currentConfidence = init.confidence,
              !.originalPrediction = init.originalPrediction,
              !.predictions = init.predictions,
              !.confidenceHistory = <<[time |-> 0,
                                       value |-> MathMin(1000000, init.confidence),
                                       attack |-> "init", success |-> FALSE]>>,
              !.attackLog = <<"info">>,
              !.isLoading = FALSE]

\* The catch branch of initSimulation.  An exception of the fallback's own
\* generatePrediction call leaves the function before any setter is called.
Dashboard_initFallback(d, initPred) ==
    IF initPred.threw
    THEN [d EXCEPT !.init = "rejected"]
    ELSE [d EXCEPT !.init = "resolved",
                   !.originalPrediction = initPred.top,
                   !.predictions = <<initPred.top>>,
                   !.confidenceHistory = <<[time |-> 0, value |-> 972000,
                                            attack |-> "init", success |-> FALSE]>>,
                   !.attackLog = <<"info">>,
                   !.isLoading = FALSE]

\* initSimulation from the point where `await import(...)` settles.
\* `imported` says whether the import resolved; `called` is the outcome of
\* engine.initialize().
Dashboard_initSimulation(d, imported, called) ==
    IF imported /\ ~called.threw
    THEN Dashboard_initFromEngine(d, called.ret)
    ELSE Dashboard_initFallback(d, Dashboard_generatePrediction(42, FALSE))

DashInit ==
    /\ EngineIdle
    /\ dash = DashboardMounted
    /\ page = "none"
    /\ stream = "none"
    /\ tf = "none"

\* The mount effect calls initSimulation, which suspends at the import.
DashInitSimulationStart ==
    /\ dash.init = "mounted"
    /\ dash' = [dash EXCEPT !.init = "importing"]
    /\ UNCHANGED <<engineVars, page, stream, tf>>

\* The import settles and initSimulation runs to its end.
DashInitSimulationResume == \E imported \in BOOLEAN :
    /\ dash.init = "importing"
    /\ dash' = Dashboard_initSimulation(dash, imported, initialize(state))
    /\ state' = IF imported THEN initialize(state).state ELSE state
    /\ UNCHANGED <<lastCall, calls, pairVars, callerVars, page, stream, tf>>

\* The interval fires runAttack.
DashRunAttack ==
    /\ dash.attackCounter < MaxDashSteps
    /\ dash' = Dashboard_runAttack(dash)
    /\ UNCHANGED <<engineVars, page, stream, tf>>

DashSetCurrentAttack == \E attack \in DashAttackInputs :
    /\ dash' = [dash EXCEPT !.currentAttack = attack]
    /\ UNCHANGED <<engineVars, page, stream, tf>>

DashSetEpsilon == \E epsilon \in DashEpsilonInputs :
    /\ dash' = [dash EXCEPT !.epsilon = epsilon]
    /\ UNCHANGED <<engineVars, page, stream, tf>>

\* setDefenses(prev => ({ ...prev, [defenseId]: !prev[defenseId] }))
DashToggleDefense == \E defenseId \in DashDefenseInputs :
    /\ dash' = [dash EXCEPT !.defenses[defenseId] = ~@]
    /\ UNCHANGED <<engineVars, page, stream, tf>>

DashNext ==
    \/ DashInitSimulationStart
    \/ DashInitSimulationResume
    \/ DashRunAttack
    \/ DashSetCurrentAttack
    \/ DashSetEpsilon
    \/ DashToggleDefense

SpecDash == DashInit /\ [][DashNext]_vars

-----------------------------------------------------------------------------
\* The dashboard page of src/src/pages/Dashboard.jsx (specification SpecPage).
\* The page runs one asynchronous runAttack per tick of a 2000 ms interval;
\* each runAttack awaits dataService.executeAttack and then writes its result
\* to the displayed state.  page.pending holds the runAttack calls whose
\* executeAttack promise has not settled yet.

MaxPageTicks == 3

MaxPending == 2

MaxPageClicks == 3

PageAttackInputs == {"fgsm", "pgd"}

\* What executeAttack can settle with: the mock result, which has no
\* predictions field, a server result whose first prediction has the given
\* confidence, or a rejection (failed fetch).
ExecuteAttackResults ==
    {[kind |-> "fulfilled", hasPredictions |-> FALSE, predictions |-> <<>>,
      success |-> s] : s \in BOOLEAN}
    \cup
    {[kind |-> "fulfilled", hasPredictions |-> TRUE,
      predictions |-> <<[label |-> "panda", confidence |-> c]>>,
      success |-> s] : c \in {300000, 600000}, s \in BOOLEAN}
    \cup
    {[kind |-> "rejected", hasPredictions |-> FALSE, predictions |-> <<>>,
      success |-> FALSE]}

\* Sequences of Math.random() results, in millionths, two per drawn node.
PageNodeDraws ==
    {<<100000, 100000, 500000, 900000, 100000, 100000,
       999999, 999999, 300000, 400000, 500000, 900000>>,
     <<0, 0, 0, 0, 0, 0, 0, 0, 0, 0, 0, 0>>}

Page_addToLog(log, message) ==
    SubSeq(<<message>> \o log, 1, IF Len(log) + 1 < 10 THEN Len(log) + 1 ELSE 10)

Page_newConfidence(result) ==
    IF Len(result.predictions) > 0 /\ result.predictions[1].confidence # 0
    THEN result.predictions[1].confidence
    ELSE 972000

Page_pushHistory(history, value) ==
    LET all == Append(history, [time |-> Len(history), value |-> value])
    IN  IF Len(all) > 50 THEN SubSeq(all, Len(all) - 49, Len(all)) ELSE all

\* The nodes drawn when the confidence is between 50 and 70.
Page_someAttackedNodes(newConfidence, draws) ==
    LET layerSize(li) ==
            IF li = 0 THEN 4
            ELSE IF li = 1 \/ li = 2 THEN 8 ELSE IF li = 3 THEN 6 ELSE 3
        drawnNode(k) ==
            LET li == (draws[2 * k - 1] * 5) \div 1000000
            IN  <<li, (draws[2 * k] * layerSize(li)) \div 1000000>>
    IN  {drawnNode(k) : k \in 1..(newConfidence \div 100000)}

\* runAttack up to its await: the start message, then the call is pending.
Page_runAttackBegin(p) ==
    [p EXCEPT !.attackLog = Page_addToLog(@, "attack started"),
              !.pending = Append(@, [attack |-> p.activeAttack]),
              !.ticks = @ + 1]

\* The catch block of runAttack.
Page_runAttackCatch(p) ==
    [p EXCEPT !.attackLog = Page_addToLog(@, "error")]

\* runAttack from the point where executeAttack has fulfilled with result.
\* Below 50 the loop over the layer sizes calls forEach on a number and the
\* TypeError is caught, after the updates made so far.
Page_runAttackResume(p, result, draws) ==
    LET c == Page_newConfidence(result)
        shown == [p EXCEPT
                    !.currentConfidence = c,
                    !.confidenceHistory = Page_pushHistory(@, c),
                    !.predictions = IF result.hasPredictions
                                    THEN result.predictions ELSE @]
    IN  IF c < 500000
        THEN Page_runAttackCatch(
                 [shown EXCEPT
                    !.attackSuccess = IF @ + 5 < 100 THEN @ + 5 ELSE 100,
                    !.attackLog = Page_addToLog(@, "confidence dropped")])
        ELSE [shown EXCEPT
                !.attackedNodes = IF c < 700000
                                  THEN Page_someAttackedNodes(c, draws)
                                  ELSE {},
                !.attackLog = Page_addToLog(@, IF result.success
                                                  THEN "success"
                                                  ELSE "confidence")]

\* The settlement of the i-th pending runAttack.
Page_runAttackSettle(p, i, result, draws) ==
    LET q == [p EXCEPT !.pending = SubSeq(@, 1, i - 1)
                                      \o SubSeq(@, i + 1, Len(@))]
    IN  IF result.kind = "rejected"
        THEN Page_runAttackCatch(q)
        ELSE Page_runAttackResume(q, result, draws)

\* The isRunning effect: the cleanup of the previous run clears the interval,
\* then the effect body sets a new interval or reports the pause.
Page_intervalEffect(p) ==
    IF p.isRunning
    THEN [p EXCEPT !.attackLog = Page_addToLog(@, "simulation started"),
                   !.interval = TRUE]
    ELSE [p EXCEPT !.attackLog = Page_addToLog(@, "simulation paused"),
                   !.interval = FALSE]

\* What the page displays of the attack.
Page_displayed(p) ==
    <<p.currentConfidence, p.confidenceHistory, p.predictions,
      p.attackedNodes, p.attackLog>>

\* The page once initDashboard has finished with the mock data.
PageMounted ==
    [isRunning |-> FALSE,
     interval |-> FALSE,
     activeAttack |-> "fgsm",
     currentConfidence |-> 972000,
     confidenceHistory |-> <<>>,
     attackSuccess |-> 0,
     predictions |-> <<[label |-> "panda", confidence |-> 972000],
                       [label |-> "gibbon", confidence |-> 21000],
                       [label |-> "macaque", confidence |-> 25000]>>,
     attackedNodes |-> {},
     attackLog |-> <<"model loaded", "simulation paused", "initializing">>,
     pending |-> <<>>,
     ticks |-> 0,
     clicks |-> 0]

PageInit ==
    /\ EngineIdle
    /\ dash = "none"
    /\ page = PageMounted
    /\ stream = "none"
    /\ tf = "none"

\* Click on the Start / Stop button.
PageToggleRunning ==
    /\ page.clicks < MaxPageClicks
    /\ page' = Page_intervalEffect([page EXCEPT !.isRunning = ~@,
                                                !.clicks = @ + 1])
    /\ UNCHANGED <<engineVars, dash, stream, tf>>

\* Choice of another attack: runAttack changes, so the effect runs again.
PageSetActiveAttack ==
    /\ page.clicks < MaxPageClicks
    /\ \E a \in PageAttackInputs \ {page.activeAttack} :
           page' = Page_intervalEffect([page EXCEPT !.activeAttack = a,
                                                   !.clicks = @ + 1])
    /\ UNCHANGED <<engineVars, dash, stream, tf>>

\* The interval fires.
PageTick ==
    /\ page.interval
    /\ page.ticks < MaxPageTicks
    /\ Len(page.pending) < MaxPending
    /\ page' = Page_runAttackBegin(page)
    /\ UNCHANGED <<engineVars, dash, stream, tf>>

\* The executeAttack promise of a pending runAttack settles.
PageExecuteAttackSettles ==
    /\ \E i \in 1..Len(page.pending), result \in ExecuteAttackResults,
          draws \in PageNodeDraws :
           page' = Page_runAttackSettle(page, i, result, draws)
    /\ UNCHANGED <<engineVars, dash, stream, tf>>

PageNext ==
    \/ PageToggleRunning
    \/ PageSetActiveAttack
    \/ PageTick
    \/ PageExecuteAttackSettles

SpecPage == PageInit /\ [][PageNext]_vars

-----------------------------------------------------------------------------
\* The streaming dashboard of src/unnamed/part_002 (specification SpecStream).
\* The mount effect connects a stream; the stream's error handler counts the
\* error in reconnectAttemptsRef and may set a timeout that connects again.
\* stream.scheduled lists the setTimeout calls made so far and stream.timers
\* the positions in that list of the timeouts that are still to fire.

MaxStreamErrors == 4

MaxStreamMessages == 3

maxReconnectAttempts == 3

StreamValueInputs == {300000, 900000}

\* updateConfidence: dropped when less than 16 ms after the last update.
Stream_updateConfidence(s, newValue, throttled) ==
    IF throttled
    THEN s
    ELSE [s EXCEPT !.currentConfidence = newValue, !.historyLength =
                       IF @ + 1 < 50 THEN @ + 1 ELSE 50]

\* The message handler; attackSuccess is in tenths.
Stream_onMessage(s, value, throttled) ==
    [Stream_updateConfidence(s, value, throttled) EXCEPT
        !.messages = @ + 1,
        !.attackSuccess = IF value < 500000
                          THEN (IF @ + 5 < 1000 THEN @ + 5 ELSE 1000)
                          ELSE @]

Stream_delay(attempts) ==
    IF 1000 * (2 ^ attempts) < 5000 THEN 1000 * (2 ^ attempts) ELSE 5000

Stream_onErrorInclusive(s) ==
    LET attempts == s.reconnectAttempts + 1
        counted == [s EXCEPT !.streamError = TRUE,
                             !.errors = @ + 1,
                             !.reconnectAttempts = attempts]
    IN  IF attempts <= maxReconnectAttempts
        THEN [counted EXCEPT
                !.scheduled = Append(@, [error |-> s.errors + 1,
                                         delay |-> Stream_delay(attempts)]),
                !.timers = @ \cup {Len(s.scheduled) + 1},
                !.reconnectTimeout = Len(s.scheduled) + 1]
        ELSE counted

\* The error handler.
Stream_onError(s) ==
    LET attempts == s.reconnectAttempts + 1
        counted == [s EXCEPT !.streamError = TRUE,
                             !.errors = @ + 1,
                             !.reconnectAttempts = attempts]
    IN  IF attempts < maxReconnectAttempts
        THEN [counted EXCEPT
                !.scheduled = Append(@, [error |-> s.errors + 1,
                                         delay |-> Stream_delay(attempts)]),
                !.timers = @ \cup {Len(s.scheduled) + 1},
                !.reconnectTimeout = Len(s.scheduled) + 1]
        ELSE counted

\* connectStream: closes the current stream and creates the next one.
Stream_connectStream(s) ==
    [s EXCEPT !.streams = @ + 1, !.open = TRUE]

\* The effect cleanup: clears the timeout set last and closes the stream.
Stream_cleanup(s) ==
    [s EXCEPT !.timers = @ \ {s.reconnectTimeout},
              !.open = FALSE,
              !.mounted = FALSE]

\* The component after its mount effect has connected the first stream.
StreamMounted ==
    Stream_connectStream(
        [mounted |-> TRUE,
         reconnectAttempts |-> 0,
         reconnectTimeout |-> 0,
         scheduled |-> <<>>,
         timers |-> {},
         streams |-> 0,
         open |-> FALSE,
         streamError |-> FALSE,
         currentConfidence |-> 972000,
         historyLength |-> 0,
         attackSuccess |-> 0,
         errors |-> 0,
         messages |-> 0])

StreamInit ==
    /\ EngineIdle
    /\ dash = "none"
    /\ page = "none"
    /\ stream = StreamMounted
    /\ tf = "none"

\* A stream created by this component reports an error; a closed WebSocket
\* keeps its handler, so the error may come from an earlier stream too.
StreamError ==
    /\ stream.errors < MaxStreamErrors
    /\ stream' = Stream_onError(stream)
    /\ UNCHANGED <<engineVars, dash, page, tf>>

\* The open stream delivers a confidence message.
StreamMessage ==
    /\ stream.open
    /\ stream.messages < MaxStreamMessages
    /\ \E value \in StreamValueInputs, throttled \in BOOLEAN :
           stream' = Stream_onMessage(stream, value, throttled)
    /\ UNCHANGED <<engineVars, dash, page, tf>>

\* A reconnection timeout fires.
StreamReconnect ==
    /\ \E t \in stream.timers :
           stream' = Stream_connectStream([stream EXCEPT !.timers = @ \ {t}])
    /\ UNCHANGED <<engineVars, dash, page, tf>>

StreamUnmount ==
    /\ stream.mounted
    /\ stream' = Stream_cleanup(stream)
    /\ UNCHANGED <<engineVars, dash, page, tf>>

StreamNext ==
    \/ StreamError
    \/ StreamMessage
    \/ StreamReconnect
    \/ StreamUnmount

SpecStream == StreamInit /\ [][StreamNext]_vars

-----------------------------------------------------------------------------
\* loadModel of src/src/services/tfService.js (specifications SpecTf and
\* SpecTfFair).  tf.calls[c] is the state of the promise returned by the c-th
\* call: "idle" before the call, "loading" while the call runs the import and
\* the download, "waiting" while it polls modelLoaded every 100 ms, and
\* "resolved" or "rejected" once the promise has settled.

MaxLoadCalls == 4

LoadCalls == 1..MaxLoadCalls

\* loadModel up to its first await.
Tf_loadModel(t, c) ==
    IF t.modelLoaded /\ t.model # "null"
    THEN [t EXCEPT !.calls[c] = "resolved"]
    ELSE IF t.modelLoading
         THEN [t EXCEPT !.calls[c] = "waiting"]
         ELSE [t EXCEPT !.modelLoading = TRUE, !.calls[c] = "loading"]

\* The try block completes: the import, tf.ready() and loadGraphModel resolve.
Tf_loaded(t, c) ==
    [t EXCEPT !.model = "graph", !.modelLoaded = TRUE, !.modelLoading = FALSE,
              !.calls[c] = "resolved"]

\* The catch block: one of the awaited promises rejects.
Tf_loadError(t, c) ==
    [t EXCEPT !.modelLoading = FALSE, !.calls[c] = "rejected"]

\* One tick of the interval of a waiting call.
Tf_check(t, c) ==
    IF t.modelLoaded THEN [t EXCEPT !.calls[c] = "resolved"] ELSE t

\* The module after it has been evaluated.
TfModule ==
    [model |-> "null", modelLoading |-> FALSE, modelLoaded |-> FALSE,
     calls |-> [c \in LoadCalls |-> "idle"]]

TfInit ==
    /\ EngineIdle
    /\ dash = "none"
    /\ page = "none"
    /\ stream = "none"
    /\ tf = TfModule

TfLoadModel(c) ==
    /\ tf.calls[c] = "idle"
    /\ tf' = Tf_loadModel(tf, c)
    /\ UNCHANGED <<engineVars, dash, page, stream>>

TfLoaded(c) ==
    /\ tf.calls[c] = "loading"
    /\ tf' = Tf_loaded(tf, c)
    /\ UNCHANGED <<engineVars, dash, page, stream>>

TfLoadError(c) ==
    /\ tf.calls[c] = "loading"
    /\ tf' = Tf_loadError(tf, c)
    /\ UNCHANGED <<engineVars, dash, page, stream>>

TfCheck(c) ==
    /\ tf.calls[c] = "waiting"
    /\ tf' = Tf_check(tf, c)
    /\ UNCHANGED <<engineVars, dash, page, stream>>

TfNext ==
    \/ \E c \in LoadCalls : TfLoadModel(c)
    \/ \E c \in LoadCalls : TfLoaded(c)
    \/ \E c \in LoadCalls : TfLoadError(c)
    \/ \E c \in LoadCalls : TfCheck(c)

SpecTf == TfInit /\ [][TfNext]_vars

\* The event loop runs every interval tick, and every import and download
\* ends, with the model or with an error.  Nothing obliges the callers to call
\* loadModel again.
TfFairness ==
    \A c \in LoadCalls :
        /\ WF_vars(TfCheck(c))
        /\ WF_vars(TfLoaded(c) \/ TfLoadError(c))

SpecTfFair == SpecTf /\ TfFairness

-----------------------------------------------------------------------------
\* Properties of the single engine (specification Spec).  Every step of Spec
\* is one call, so lastCall' names the call a step makes and lastCall the
\* call that produced the current state.

AttackIds == DOMAIN ATTACK_CONFIGS

DefenseNames == DOMAIN keyMap

\* The fields of `state` other than the one named.
OtherFieldsUnchanged(field) ==
    \A f \in (DOMAIN state) \ {field} : state'[f] = state[f]

\* The success flag of the latest runAttack, as recorded in the history.
LastSuccess(st) == st.confidenceHistory[Len(st.confidenceHistory)].success

\* C1: runAttack has no error outcome: whenever it has been called it has
\* returned normally, with an AttackResult.
C1_RunAttackNeverThrows ==
    lastCall.op = "runAttack" => ~lastCall.threw

\* C2: initialize always succeeds: whenever it has been called it has returned
\* normally, with a snapshot.
C2_InitializeNeverThrows ==
    lastCall.op = "initialize" => ~lastCall.threw

\* C3: in every reachable state 5 <= currentConfidence <= 100.
C3_ConfidenceBounds ==
    50000 <= state.currentConfidence /\ state.currentConfidence <= 1000000

C7_UnknownAttackIgnored ==
    /\ [](state.currentAttack \in AttackIds)
    /\ [][lastCall'.op = "setAttackType" /\ lastCall'.arg \notin AttackIds
            => ~lastCall'.threw /\ state' = state]_vars

\* C8: toggleDefense with an id that names none of the four defenses returns
\* false and changes nothing.
C8_UnknownDefenseNoOp ==
    [][/\ lastCall'.op = "toggleDefense"
       /\ lastCall'.arg \notin DefenseIds \cup DefenseNames
         => lastCall'.ret = FALSE /\ state' = state]_vars

\* C9: every runAttack call increases attackCount by exactly 1, and no call
\* other than initialize or resetSimulation decreases it; the setters and the
\* readers leave it unchanged.
C9_AttackCountMonotonic ==
    [][/\ lastCall'.op = "runAttack"
            => state'.attackCount = state.attackCount + 1
       /\ lastCall'.op \notin {"runAttack", "initialize", "resetSimulation"}
            => state'.attackCount = state.attackCount]_vars

\* C9 witness: two runAttack calls have been counted.
C9_Witness ==
    lastCall.op = "runAttack" /\ state.attackCount = 2

\* C10: 0 <= successCount <= attackCount in every reachable state, and a
\* runAttack call increments successCount by 1 exactly when its success flag
\* is true.
C10_SuccessCount ==
    /\ [](0 <= state.successCount /\ state.successCount <= state.attackCount)
    /\ [][lastCall'.op = "runAttack"
            => state'.successCount =
                 state.successCount + (IF LastSuccess(state') THEN 1 ELSE 0)]_vars

\* C10 witness: of two runAttack calls one succeeded and one failed.
C10_Witness ==
    /\ lastCall.op = "runAttack"
    /\ state.attackCount = 2
    /\ state.successCount = 1

-----------------------------------------------------------------------------
\* Properties of long runs (specification SpecLong).

\* C11: the confidence history is a first-in-first-out window of the last 60
\* steps.  After n steps since the last initialisation it holds min(n, 60)
\* entries, whose step numbers are consecutive, increasing and end at
\* attackCount; from the 60th step on the oldest entry carries the step
\* number attackCount - 59.
C11_HistoryWindow ==
    /\ Len(state.confidenceHistory)
           = (IF state.attackCount < 60 THEN state.attackCount ELSE 60)
    /\ \A k \in 1..Len(state.confidenceHistory) :
           state.confidenceHistory[k].time
               = state.attackCount - Len(state.confidenceHistory) + k
    /\ state.attackCount >= 60 =>
           state.confidenceHistory[1].time = state.attackCount - 59

\* The 61st step has evicted the entry of the first step.
C11_Witness ==
    /\ lastCall.op = "runAttack"
    /\ state.attackCount = 61
    /\ Len(state.confidenceHistory) = 60
    /\ state.confidenceHistory[1].time = 2
    /\ state.confidenceHistory[60].time = 61

-----------------------------------------------------------------------------
\* Further properties of the single engine (specification Spec).

\* C12: the attack log is bounded and most recent first.  Every step prepends
\* exactly one entry, of severity 'danger' when the step succeeded and 'info'
\* otherwise, so after n steps the log holds min(n, 15) entries and never
\* more than 15.
C12_LogBounded ==
    /\ Len(state.attackLog)
           = (IF state.attackCount < 15 THEN state.attackCount ELSE 15)
    /\ lastCall.op = "runAttack" =>
           /\ state.attackLog # <<>>
           /\ state.attackLog[1].type
                  = (IF LastSuccess(state) THEN "danger" ELSE "info")

\* C13: the success rate reported by getStatistics() is the percentage
\* successCount / attackCount * 100 rounded to the nearest integer (halves
\* upwards) when attackCount > 0, and 0 when attackCount = 0; it is always an
\* integer between 0 and 100.
C13_SuccessRate ==
    LET r == getStatistics(state).successRate
    IN /\ r \in 0..100
       /\ IF state.attackCount = 0
          THEN r = 0
          ELSE /\ 2 * r * state.attackCount
                      <= 200 * state.successCount + state.attackCount
               /\ 200 * state.successCount + state.attackCount
                      < 2 * (r + 1) * state.attackCount

\* getStatistics() has reported two successes of three steps as 67 percent.
C13_Witness ==
    /\ lastCall.op = "getStatistics"
    /\ state.attackCount = 3
    /\ state.successCount = 2
    /\ lastCall.ret.successRate = 67

-----------------------------------------------------------------------------
\* Properties of initialize() (specification SpecTracked).

\* C14: whatever the state before, once initialize() has run the confidence
\* is 97.2, attackCount and successCount are 0, the seed is 42, and the
\* confidence history, the attack log and the set of attacked nodes are
\* empty.
C14_InitializeResets ==
    lastCall.op = "initialize" =>
        /\ state.currentConfidence = 972000
        /\ state.attackCount = 0
        /\ state.successCount = 0
        /\ state.seed = 42
        /\ state.confidenceHistory = <<>>
        /\ state.attackLog = <<>>
        /\ state.attackedNodes = {}

\* initialize() has run right after a step, which had left a history entry
\* and an advanced seed behind.
C14_Witness ==
    /\ lastCall.op = "initialize"
    /\ prevCall.op = "runAttack"
    /\ state.seed = 42
    /\ state.confidenceHistory = <<>>

\* C16: initialize() is idempotent.  Calling it twice in succession leaves
\* the engine in exactly the state, and the caller with the same outcome, as
\* calling it once.
C16_InitializeIdempotent ==
    [][lastCall.op = "initialize" /\ lastCall'.op = "initialize" =>
           /\ state' = state
           /\ lastCall'.threw = lastCall.threw
           /\ lastCall'.ret = lastCall.ret]_vars

\* initialize() has been called twice in succession, after a change of the
\* configuration.
C16_Witness ==
    /\ lastCall.op = "initialize"
    /\ prevCall.op = "initialize"
    /\ calls >= 3
    /\ state.perturbationLevel = 100

-----------------------------------------------------------------------------
\* Properties of the readers (specification SpecReaders).

\* C15: the readers return immutable snapshots by value.  What
\* getConfidenceHistory(), getAttackLog() or getCurrentState() returned is
\* not changed by any later step, toggleDefense, setEpsilon or setAttackType:
\* the caller sees now what was returned then.
C15_SnapshotsUnchanged ==
    held.reader # "none" => held.now = held.returned

-----------------------------------------------------------------------------
\* Properties of the effectiveness model (specification SpecPure).

\* The state with the defenses replaced.
withDefenses(st, defs) == [st EXCEPT !.defenses = defs]

AllDefenses == [k \in DefenseIds |-> TRUE]

\* C17: defenses lower the effectiveness.  For every attack and every epsilon
\* in [0.001, 0.1], the effectiveness with all four defenses enabled is
\* strictly lower than with none enabled.
C17_DefensesLowerEffectiveness ==
    calculateAttackEffectiveness(withDefenses(state, AllDefenses))
        < calculateAttackEffectiveness(withDefenses(state, [k \in DefenseIds |-> FALSE]))

\* The effectiveness of C&W at epsilon 0.1 has been computed with all four
\* defenses enabled; without defenses it would be at the cap of 0.98.
C17_Witness ==
    /\ lastCall.op = "calculateAttackEffectiveness"
    /\ state.currentAttack = "cw"
    /\ state.perturbationLevel = 100
    /\ state.defenses = AllDefenses
    /\ lastCall.ret < 980000
    /\ calculateAttackEffectiveness(withDefenses(state, [k \in DefenseIds |-> FALSE]))
           = 980000

\* The factor 1 - baseEffectiveness * 0.4 of a defense, or 1 when disabled.
defenseFactor(enabled, baseEffectiveness) ==
    IF enabled THEN 1000000 - Times(baseEffectiveness, 400000) ELSE 1000000

\* C18: for each of the 16 combinations of defenses the multiplier is
\* max(0.1, product over the enabled defenses of 1 - baseEffectiveness * 0.4),
\* with the base effectiveness values 0.78 (adversarial training), 0.45
\* (input preprocessing), 0.62 (defensive distillation) and 0.55 (feature
\* squeezing); it lies in [0.1, 1], and enabling one more defense never
\* increases it.
C18_DefenseMultiplier ==
    /\ getDefenseMultiplier(state)
           = MathMax(100000,
                 Times(Times(Times(Times(1000000,
                     defenseFactor(state.defenses.adversarialTraining, 780000)),
                     defenseFactor(state.defenses.inputPreprocessing, 450000)),
                     defenseFactor(state.defenses.defensiveDistillation, 620000)),
                     defenseFactor(state.defenses.featureSqueezing, 550000)))
    /\ 100000 <= getDefenseMultiplier(state)
    /\ getDefenseMultiplier(state) <= 1000000
    /\ \A k \in DefenseIds :
           ~state.defenses[k] =>
               getDefenseMultiplier([state EXCEPT !.defenses[k] = TRUE])
                   <= getDefenseMultiplier(state)

\* The multiplier has been computed for the default defenses (input
\* preprocessing and feature squeezing): 0.82 * 0.78 = 0.6396.
C18_Witness ==
    /\ lastCall.op = "getDefenseMultiplier"
    /\ state.defenses = InitialState.defenses
    /\ lastCall.ret = 639600

-----------------------------------------------------------------------------
\* Properties of one step (specification Spec).

\* The drop of a step taken in state st, as C19 states it:
\* min(c - 10, baseConfidenceDrop * defenseMultiplier * min(epsilon / 0.03, 2)).
claimedDrop(st) ==
    MathMin(Minus(st.currentConfidence, 100000),
            Times(Times(attackConfigOf(st.currentAttack).baseConfidenceDrop,
                        getDefenseMultiplier(st)),
                  MathMin(Over(st.perturbationLevel, 30), 2000000)))

\* Epsilon 0.03, attack pgd, the default defenses and a confidence of 97.2.
FirstPgdStep(st) ==
    /\ st.perturbationLevel = 30
    /\ st.currentAttack = "pgd"
    /\ st.defenses = InitialState.defenses
    /\ st.currentConfidence = 972000

\* C19: the confidence update of a step.  With c the confidence before the
\* step and drop = min(c - 10, baseConfidenceDrop * defenseMultiplier *
\* min(epsilon / 0.03, 2)), the confidence after the step is max(15, c - drop)
\* when the step succeeds and min(99, c - 0.3 * drop) when it fails.  In
\* particular, with epsilon 0.03, attack pgd and the default defenses, the
\* first step from 97.2 yields 97.2 - 35 * 0.82 * 0.78 = 74.814 on success
\* and 97.2 - 0.3 * 35 * 0.82 * 0.78 = 90.4842 on failure.
C19_ConfidenceUpdate ==
    /\ [][lastCall'.op = "runAttack" =>
              state'.currentConfidence
                  = (IF LastSuccess(state')
                     THEN MathMax(150000, Minus(state.currentConfidence, claimedDrop(state)))
                     ELSE MathMin(990000, Minus(state.currentConfidence,
                                                Times(claimedDrop(state), 300000))))]_vars
    /\ [][lastCall'.op = "runAttack" /\ FirstPgdStep(state) =>
              state'.currentConfidence
                  = (IF LastSuccess(state') THEN 748140 ELSE 904842)]_vars
    /\ [](FirstPgdStep(state) =>
              /\ confidenceAfter(state.currentConfidence,
                                 calculateConfidenceDrop(state), TRUE) = 748140
              /\ confidenceAfter(state.currentConfidence,
                                 calculateConfidenceDrop(state), FALSE) = 904842)

\* The first step with pgd at epsilon 0.03 under the default defenses has
\* succeeded and left a confidence of 74.814.
C19_Witness ==
    /\ lastCall.op = "runAttack"
    /\ state.attackCount = 1
    /\ state.currentAttack = "pgd"
    /\ state.perturbationLevel = 30
    /\ state.defenses = InitialState.defenses
    /\ LastSuccess(state)
    /\ state.currentConfidence = 748140

\* C20: in every step the effectiveness is
\* min(0.98, baseSuccessRate * defenseMultiplier * min(epsilon / 0.03, 2)), so
\* it lies in (0, 0.98], and the success flag of the step is true exactly
\* when the pseudo-random draw for the already incremented seed is strictly
\* less than the effectiveness.
C20_Effectiveness ==
    [][lastCall'.op = "runAttack" =>
           /\ calculateAttackEffectiveness(state)
                  = MathMin(980000,
                        Times(Times(attackConfigOf(state.currentAttack).baseSuccessRate,
                                    getDefenseMultiplier(state)),
                              MathMin(Over(state.perturbationLevel, 30), 2000000)))
           /\ LessThan(0, calculateAttackEffectiveness(state))
           /\ ~LessThan(980000, calculateAttackEffectiveness(state))
           /\ ~isNaN(calculateAttackEffectiveness(state))
           /\ LastSuccess(state')
                  <=> seededRandom(state'.seed) < calculateAttackEffectiveness(state)]_vars

\* C21: after every step the set of attacked nodes has been recomputed from
\* the confidence c the step left: it is empty when c > 80, and otherwise it
\* is the non-empty set of positions that floor((1 - c/100) * 25 + 5) seeded
\* draws produce, each a <<layer, node>> pair of the topology [4, 8, 8, 6, 3].
C21_AttackedNodesRecomputed ==
    lastCall.op = "runAttack" =>
        IF state.currentConfidence > 800000
        THEN state.attackedNodes = {}
        ELSE /\ state.attackedNodes # {}
             /\ state.attackedNodes = updateAttackedNodes(state)
             /\ \A p \in state.attackedNodes :
                    /\ p[1] \in 0..4
                    /\ p[2] \in 0..(layers[p[1] + 1] - 1)

\* C22: every step increments the seed by exactly 1 before it draws its
\* success flag, no other call changes the seed except initialize() and
\* resetSimulation(), which set it to 42, and so seed = 42 + attackCount in
\* every reachable state.
C22_SeedFollowsAttackCount ==
    /\ [](state.seed = 42 + state.attackCount)
    /\ [][/\ lastCall'.op = "runAttack" =>
                /\ state'.seed = state.seed + 1
                /\ LastSuccess(state')
                       <=> LessThan(seededRandom(state.seed + 1),
                                    calculateAttackEffectiveness(state))
          /\ lastCall'.op \in {"initialize", "resetSimulation"} => state'.seed = 42
          /\ lastCall'.op \notin {"runAttack", "initialize", "resetSimulation"} =>
                state'.seed = state.seed]_vars

\* Three steps have taken the seed from 42 to 45, and a setter has left it
\* there.
C22_Witness ==
    /\ lastCall.op = "setEpsilon"
    /\ state.attackCount = 3
    /\ state.seed = 45

\* C24: a step is all-or-nothing.  When runAttack ends in an error, no field
\* of the engine state differs from its value before the call.
C24_StepAllOrNothing ==
    [][lastCall'.op = "runAttack" /\ lastCall'.threw => state' = state]_vars

\* C25: between two initialisations the confidence never increases: after
\* every step, successful or failed, it is less than or equal to what it was
\* before the step.
C25_ConfidenceNeverIncreases ==
    [][lastCall'.op = "runAttack" =>
           state'.currentConfidence <= state.currentConfidence]_vars

\* The fields initialize() and resetSimulation() are said to reset.
ResetFieldNames ==
    {"currentConfidence", "attackCount", "successCount", "seed",
     "confidenceHistory", "attackLog", "attackedNodes", "predictions",
     "currentPrediction", "adversarialPrediction"}

\* C26: initialize() and resetSimulation() leave the configuration untouched:
\* epsilon, the selected attack and the four defense booleans have the same
\* values after the call as before it, and nothing but the confidence, the
\* counters, the seed, the history, the log, the attacked nodes and the
\* predictions is reset.
C26_ResetKeepsConfiguration ==
    [][lastCall'.op \in {"initialize", "resetSimulation"} =>
           /\ state'.perturbationLevel = state.perturbationLevel
           /\ state'.currentAttack = state.currentAttack
           /\ state'.defenses = state.defenses
           /\ \A f \in (DOMAIN state) \ ResetFieldNames : state'[f] = state[f]]_vars

\* initialize() has run on an engine configured with epsilon 0.1, the attack
\* cw and adversarial training enabled, and the configuration is still there.
C26_Witness ==
    /\ lastCall.op = "initialize"
    /\ state.perturbationLevel = 100
    /\ state.currentAttack = "cw"
    /\ state.defenses.adversarialTraining
    /\ state.attackCount = 0

-----------------------------------------------------------------------------
\* Properties of the dashboard with the inline attack step (specification
\* SpecDash).

C28_InitSimulationEndsLoading ==
    dash.init \in {"resolved", "rejected"} => ~dash.isLoading

-----------------------------------------------------------------------------
\* Properties of the dashboard page (specification SpecPage).

PageStopped == ~page.isRunning /\ ~page.interval

\* C27: once isRunning is false and the interval is cleared, the settlement
\* of a runAttack that was still pending leaves currentConfidence,
\* confidenceHistory, predictions, attackedNodes and attackLog as they were.
C27_NoUpdateAfterStop ==
    [][(PageStopped /\ Len(page'.pending) < Len(page.pending))
           => Page_displayed(page') = Page_displayed(page)]_vars

-----------------------------------------------------------------------------
\* Properties of the streaming dashboard (specification SpecStream).

\* C29: the error handler schedules at most two reconnections per mount;
\* reconnectAttempts counts every error and is never reset, by messages or
\* otherwise; a reconnection is scheduled only by the first or second error,
\* after min(1000 * 2^reconnectAttempts, 5000) ms, and never from the third
\* error on.
C29_ReconnectsBounded ==
    /\ Len(stream.scheduled) <= 2
    /\ stream.reconnectAttempts = stream.errors
    /\ \A k \in 1..Len(stream.scheduled) :
           /\ stream.scheduled[k].error < 3
           /\ stream.scheduled[k].delay
                  = (IF 1000 * (2 ^ stream.scheduled[k].error) < 5000
                     THEN 1000 * (2 ^ stream.scheduled[k].error)
                     ELSE 5000)

C29_Witness ==
    /\ stream.errors > 3
    /\ stream.messages > 1
    /\ Len(stream.scheduled) = 2
    /\ stream.timers = {}

-----------------------------------------------------------------------------
\* Properties of tfService.loadModel (specification SpecTfFair).

Settled == {"resolved", "rejected"}

\* C30: every call of loadModel eventually settles: its promise is resolved
\* or rejected, also when the call arrived during a load that then failed.
C30_EveryCallSettles ==
    \A c \in LoadCalls :
        (tf.calls[c] \in {"loading", "waiting"}) ~> (tf.calls[c] \in Settled)

====
